---------------------------- MODULE Spec2Model ----------------------------
(***************************************************************************)
(* tacxtv/rustmine, src/nuxt.config.ts.                                    *)
(*                                                                         *)
(* The file is one statement: it evaluates an object literal and hands it  *)
(* to defineNuxtConfig, a function of the host framework.  The model holds *)
(* the literal, value for value, the evaluation of the statement, and the  *)
(* framework reading the properties of the object it was handed, in any    *)
(* order.  The repository holds no code that validates or merges a         *)
(* configuration, so no such operation is modelled.                        *)
(***************************************************************************)
EXTENDS Integers, Sequences, FiniteSets, TLC

VARIABLES
    pc,       \* "start" before the statement of line 2 runs, "defined" after
    config,   \* the argument objects handed to defineNuxtConfig so far
    read      \* the property paths the framework has read from the object

vars == <<pc, config, read>>

(***************************************************************************)
(* A plausible slip in the literal: the position misspelt.                 *)
(***************************************************************************)
NuxtConfigTypo ==
    [telemetry  |-> FALSE,
     devtools   |-> [enabled |-> TRUE],
     ssr        |-> FALSE,
     pages      |-> TRUE,
     components |-> TRUE,
     srcDir     |-> "src-nuxt/",
     css        |-> <<"~/assets/sass/global.sass">>,
     modules    |-> <<"nuxt-quasar-ui">>,
     quasar     |->
        [iconSet |-> "mdi-v5",
         plugins |-> <<"Notify", "Dialog">>,
         config  |->
            [dark   |-> "auto",
             notify |->
                [timeout  |-> 2500,
                 position |-> "top-rigth",
                 actions  |-> <<[icon |-> "mdi-close", color |-> "white"]>>]]]]

(***************************************************************************)
(* The object literal of lines 2-23, key for key.                          *)
(***************************************************************************)
NuxtConfig ==
    [telemetry  |-> FALSE,
     devtools   |-> [enabled |-> TRUE],
     ssr        |-> FALSE,
     pages      |-> TRUE,
     components |-> TRUE,
     srcDir     |-> "src-nuxt/",
     css        |-> <<"~/assets/sass/global.sass">>,
     modules    |-> <<"nuxt-quasar-ui">>,
     quasar     |->
        [iconSet |-> "mdi-v5",
         plugins |-> <<"Notify", "Dialog">>,
         config  |->
            [dark   |-> "auto",
             notify |->
                [timeout  |-> 2500,
                 position |-> "top-right",
                 actions  |-> <<[icon |-> "mdi-close", color |-> "white"]>>]]]]

(***************************************************************************)
(* The leaf properties of the literal, one per value it declares.          *)
(***************************************************************************)
Paths ==
    {"telemetry", "devtools.enabled", "ssr", "pages", "components", "srcDir",
     "css", "modules", "quasar.iconSet", "quasar.plugins",
     "quasar.config.dark", "quasar.config.notify.timeout",
     "quasar.config.notify.position", "quasar.config.notify.actions"}

(***************************************************************************)
(* Property access along a path of the literal.                            *)
(***************************************************************************)
Get(c, p) ==
    CASE p = "telemetry"                     -> c.telemetry
      [] p = "devtools.enabled"              -> c.devtools.enabled
      [] p = "ssr"                           -> c.ssr
      [] p = "pages"                         -> c.pages
      [] p = "components"                    -> c.components
      [] p = "srcDir"                        -> c.srcDir
      [] p = "css"                           -> c.css
      [] p = "modules"                       -> c.modules
      [] p = "quasar.iconSet"                -> c.quasar.iconSet
      [] p = "quasar.plugins"                -> c.quasar.plugins
      [] p = "quasar.config.dark"            -> c.quasar.config.dark
      [] p = "quasar.config.notify.timeout"  -> c.quasar.config.notify.timeout
      [] p = "quasar.config.notify.position" -> c.quasar.config.notify.position
      [] p = "quasar.config.notify.actions"  -> c.quasar.config.notify.actions

(***************************************************************************)
(* The declared value domains (spec, section 3).                           *)
(***************************************************************************)
Theme == {"light", "dark", "auto"}

Position ==
    {"topLeft", "topRight", "bottomLeft", "bottomRight",
     "top", "bottom", "left", "right", "center"}

\* The upper-case form of one lower-case letter; any other character as is.
Upper(ch) ==
    CASE ch = "a" -> "A" [] ch = "b" -> "B" [] ch = "c" -> "C" [] ch = "d" -> "D"
      [] ch = "e" -> "E" [] ch = "f" -> "F" [] ch = "g" -> "G" [] ch = "h" -> "H"
      [] ch = "i" -> "I" [] ch = "j" -> "J" [] ch = "k" -> "K" [] ch = "l" -> "L"
      [] ch = "m" -> "M" [] ch = "n" -> "N" [] ch = "o" -> "O" [] ch = "p" -> "P"
      [] ch = "q" -> "Q" [] ch = "r" -> "R" [] ch = "s" -> "S" [] ch = "t" -> "T"
      [] ch = "u" -> "U" [] ch = "v" -> "V" [] ch = "w" -> "W" [] ch = "x" -> "X"
      [] ch = "y" -> "Y" [] ch = "z" -> "Z" [] OTHER -> ch

\* The variant name a hyphenated value denotes: each hyphen is dropped and
\* the character after it capitalised ("top-right" is topRight).
RECURSIVE CamelCase(_)
CamelCase(s) ==
    IF Len(s) = 0 THEN ""
    ELSE IF SubSeq(s, 1, 1) = "-"
         THEN IF Len(s) = 1 THEN ""
              ELSE Upper(SubSeq(s, 2, 2)) \o CamelCase(SubSeq(s, 3, Len(s)))
         ELSE SubSeq(s, 1, 1) \o CamelCase(SubSeq(s, 2, Len(s)))

NoDuplicates(seq) ==
    \A i, j \in DOMAIN seq : i # j => seq[i] # seq[j]

WellFormedAction(a) == a.icon # "" /\ a.color # ""

\* Whether the value at path p of object c lies in the domain declared for it.
WithinDomain(c, p) ==
    CASE p = "quasar.config.notify.timeout"  -> Get(c, p) \in Nat
      [] p = "quasar.config.dark"            -> Get(c, p) \in Theme
      [] p = "quasar.config.notify.position" -> CamelCase(Get(c, p)) \in Position
      [] p = "quasar.config.notify.actions"  ->
            \A i \in DOMAIN Get(c, p) : WellFormedAction(Get(c, p)[i])
      [] p = "modules"                       -> NoDuplicates(Get(c, p))
      [] p = "quasar.plugins"                -> NoDuplicates(Get(c, p))
      [] OTHER                               -> TRUE

\* The paths whose values have a declared domain.
DomainPaths ==
    {"quasar.config.notify.timeout", "quasar.config.dark",
     "quasar.config.notify.position", "quasar.config.notify.actions",
     "modules", "quasar.plugins"}

(***************************************************************************)
(* The state machine.                                                      *)
(***************************************************************************)
Init ==
    /\ pc = "start"
    /\ config = <<>>
    /\ read = {}

\* Line 2: the literal is evaluated and handed to defineNuxtConfig.
Define ==
    /\ pc = "start"
    /\ config' = <<NuxtConfig>>
    /\ pc' = "defined"
    /\ UNCHANGED read

\* The framework reads one property of the object it was handed.  The object
\* is a literal of plain values: reading changes nothing in it.
Read(p) ==
    /\ pc = "defined"
    /\ p \notin read
    /\ read' = read \cup {p}
    /\ UNCHANGED <<pc, config>>

Next ==
    \/ Define
    \/ \E p \in Paths : Read(p)

Spec == Init /\ [][Next]_vars

TypeOK ==
    /\ pc \in {"start", "defined"}
    /\ Len(config) = (IF pc = "start" THEN 0 ELSE 1)
    /\ read \subseteq Paths

(***************************************************************************)
(* C10: every value the literal of nuxt.config.ts declares lies in its     *)
(* declared domain: the notification timeout is an integer >= 0, the theme *)
(* is one of light, dark, auto, the notification position denotes one of   *)
(* the nine position variants, every action has a non-empty icon and a     *)
(* non-empty color, and neither modules nor plugins names an entry twice.  *)
(* Stated of every property the framework has read from the object.        *)
(***************************************************************************)
C10_LiteralWithinDomains ==
    /\ read # {} => Len(config) = 1
    /\ \A p \in read : WithinDomain(config[1], p)

\* Every property with a declared domain has been read from the object.
C10_Witness ==
    /\ pc = "defined"
    /\ DomainPaths \subseteq read
    /\ config[1].quasar.config.notify.timeout = 2500
    /\ CamelCase(config[1].quasar.config.notify.position) = "topRight"

=============================================================================
